---------------------------- MODULE Spec2Model ----------------------------
(***************************************************************************)
(* Model of l5kit/visualization/visualiser/zarr_utils.py: the conversion   *)
(* of one recorded scene into a list of FrameVisualisation records         *)
(* (zarr_to_visualizer_scene, _get_frame_data, _get_frame_trajectories).   *)
(*                                                                         *)
(* Numbers.  Coordinates, extents and positions are integers.  Extents are *)
(* drawn from even numbers, so that 0.5 * extent is an integer.  A yaw is  *)
(* a number of quarter turns, so that its sine and cosine are in -1..1.    *)
(* A label probability is a number of hundredths (0.1 is 10).              *)
(***************************************************************************)
EXTENDS Integers, Sequences, FiniteSets, TLC

VARIABLES
    scene_dataset,      \* argument: the ChunkedDataset (scenes, frames, agents, tl_faces)
    mapAPI,             \* argument: the map service
    with_trajectories,  \* argument
    pc,                 \* "idle" | "loop" | "returned" | "raised" | "traj_returned"
    frames,             \* local of zarr_to_visualizer_scene
    agents_frames,      \* local: the agents, one array per frame
    tls_frames,         \* local: the traffic-light faces, one array per frame
    frame_idx,          \* local: the loop variable
    frames_vis,         \* local: the list being built
    map_used,           \* whether mapAPI has been read or queried
    outcome,            \* what the caller gets: nothing yet, a value, or an exception
    traj_call,          \* a direct call of _get_frame_trajectories and its result
    viewer              \* visualise_scene (visualiser.py): the page it saves

vars == <<scene_dataset, mapAPI, with_trajectories, pc, frames, agents_frames,
          tls_frames, frame_idx, frames_vis, map_used, outcome, traj_call, viewer>>

(***************************************************************************)
(* Bounds of the model.                                                    *)
(***************************************************************************)
\* the longest scene of the families that enumerate every frame's content
MaxFrames == 3
\* the length of the long scene, longer than the ego window
LongFrames == 101

(***************************************************************************)
(* Program constants.                                                      *)
(***************************************************************************)
\* agent_traj_length = 20
agent_traj_length == 20
\* ego_traj_length = 100
ego_traj_length == 100
\* filter_agents_by_labels(agents_frame, 0.1), in hundredths
LabelThreshold == 10
\* indices_in_bounds(ego_xy, ..., 50)
MapRadius == 50
\* track_id=-1 of the ego trajectory
EgoTrackId == -1
\* the track id None, which selects the ego in get_relative_poses
NoTrack == 0

\* COLORS: the display colour of a signal colour name or of a perception label
COLORS ==
    [k \in {"GREEN", "RED", "YELLOW", "PERCEPTION_LABEL_CAR",
            "PERCEPTION_LABEL_CYCLIST", "PERCEPTION_LABEL_PEDESTRIAN"} |->
        CASE k = "GREEN" -> "#33CC33"
          [] k = "RED" -> "#FF3300"
          [] k = "YELLOW" -> "#FFFF66"
          [] k = "PERCEPTION_LABEL_CAR" -> "#1F77B4"
          [] k = "PERCEPTION_LABEL_CYCLIST" -> "#CC33FF"
          [] k = "PERCEPTION_LABEL_PEDESTRIAN" -> "#66CCFF"]

(***************************************************************************)
(* Python and numpy semantics used by the code.                            *)
(***************************************************************************)
Min(a, b) == IF a < b THEN a ELSE b

\* s[a:b] for 0 <= a <= b, on a 1-based sequence: a slice is cut at the end of s
PySlice(s, a, b) == SubSeq(s, a + 1, Min(b, Len(s)))

\* s[::-1]
Reverse(s) == [i \in 1..Len(s) |-> s[Len(s) + 1 - i]]

\* column k of an array of points
Column(points, k) == [i \in 1..Len(points) |-> points[i][k]]

\* arr[mask, k]: column k of the rows of arr whose mask entry is positive, in
\* the order of the rows (rows lo..hi, by halves)
RECURSIVE MaskedRange(_, _, _, _, _)
MaskedRange(arr, mask, k, lo, hi) ==
    IF lo > hi THEN <<>>
    ELSE IF lo = hi THEN (IF mask[lo] > 0 THEN <<arr[lo][k]>> ELSE <<>>)
    ELSE LET mid == (lo + hi) \div 2
         IN MaskedRange(arr, mask, k, lo, mid) \o MaskedRange(arr, mask, k, mid + 1, hi)

\* every row, whatever the mask
MaskedColumn_all(arr, mask, k) == Column(arr, k)

MaskedColumn(arr, mask, k) == MaskedRange(arr, mask, k, 1, Min(Len(arr), Len(mask)))

\* np.argmax: the first index of the largest entry
ArgMax(v) ==
    CHOOSE i \in 1..Len(v) :
        /\ \A j \in 1..Len(v) : v[j] <= v[i]
        /\ \A j \in 1..(i - 1) : v[j] < v[i]

\* np.sin and np.cos of a yaw given in quarter turns
SinQ(q) == CASE q % 4 = 0 -> 0 [] q % 4 = 1 -> 1 [] q % 4 = 2 -> 0 [] OTHER -> -1

CosQ(q) == CASE q % 4 = 0 -> 1 [] q % 4 = 1 -> 0 [] q % 4 = 2 -> -1 [] OTHER -> 0

(***************************************************************************)
(* The library functions the module calls (l5kit.data.filter,              *)
(* l5kit.sampling, l5kit.rasterization, l5kit.geometry, l5kit.data.map_api *)
(* and l5kit.data.labels), from their contracts.                           *)
(***************************************************************************)
PERCEPTION_LABELS ==
    <<"PERCEPTION_LABEL_UNKNOWN", "PERCEPTION_LABEL_CAR",
      "PERCEPTION_LABEL_CYCLIST", "PERCEPTION_LABEL_PEDESTRIAN">>

\* the rows of a table that a frame's half-open index interval selects, per frame
filter_agents_by_frames(fs, agents) ==
    [i \in 1..Len(fs) |->
        PySlice(agents, fs[i].agent_index_interval[1], fs[i].agent_index_interval[2])]

filter_tl_faces_by_frames(fs, tl_faces) ==
    [i \in 1..Len(fs) |->
        PySlice(tl_faces, fs[i].traffic_light_faces_index_interval[1],
                fs[i].traffic_light_faces_index_interval[2])]

\* the agents whose top label probability is not below the threshold
filter_agents_by_labels(agents, threshold) ==
    SelectSeq(agents, LAMBDA a :
        a.label_probabilities[ArgMax(a.label_probabilities)] >= threshold)

\* the faces of a frame with the given status
filter_tl_faces_by_status(tl_faces, status) ==
    SelectSeq(tl_faces, LAMBDA f : f.traffic_light_face_status = status)

\* the rows of a frame's agents with the given track id
filter_agents_by_track_id(agents, track_id) ==
    SelectSeq(agents, LAMBDA a : a.track_id = track_id)

\* the yaw (in quarter turns, in -1..2 as atan2 gives it) of a rotation matrix
rotation33_as_yaw(rot) ==
    CASE rot[2][1] = 0 /\ rot[1][1] = 1 -> 0
      [] rot[2][1] = 1 /\ rot[1][1] = 0 -> 1
      [] rot[2][1] = 0 /\ rot[1][1] = -1 -> 2
      [] OTHER -> -1

\* the ego of a frame as a row of the agents table, with the ego's fixed extent
\* (an even length and width stand for it) and the label of a car
get_ego_as_agent(frame) ==
    [track_id |-> EgoTrackId,
     centroid |-> frame.ego_translation,
     yaw |-> rotation33_as_yaw(frame.ego_rotation),
     extent |-> <<4, 2>>,
     label_probabilities |-> <<0, 100, 0, 0>>]

\* the indices (0-based, ascending) of the bounding boxes that reach within
\* half_extent of the centre
indices_in_bounds(center, bounds, half_extent) ==
    LET inside(i) ==
            /\ center[1] > bounds[i][1][1] - half_extent
            /\ center[2] > bounds[i][1][2] - half_extent
            /\ center[1] < bounds[i][2][1] + half_extent
            /\ center[2] < bounds[i][2][2] + half_extent
        hits == {i \in 1..Len(bounds) : inside(i)}
        nth[k \in 0..Cardinality(hits)] ==
            IF k = 0 THEN 0
            ELSE CHOOSE i \in hits : i > nth[k - 1] /\ \A j \in hits : j > nth[k - 1] => i <= j
    IN [k \in 1..Cardinality(hits) |-> nth[k] - 1]

\* points (rows <<x, y>>) mapped by a 3x3 homogeneous matrix
transform_points(points, m) ==
    [i \in 1..Len(points) |->
        <<m[1][1] * points[i][1] + m[1][2] * points[i][2] + m[1][3],
          m[2][1] * points[i][1] + m[2][2] * points[i][2] + m[2][3]>>]

\* np.eye(3)
Eye3 == <<<<1, 0, 0>>, <<0, 1, 0>>, <<0, 0, 1>>>>

\* the positions and the availabilities of the ego (track id None) or of a
\* track over the frames given, in arrays of num_frames rows; a frame where the
\* track is absent is not available and keeps the zero position
get_relative_poses(num_frames, fs, selected_track_id, agents, agent_from_world, yaw) ==
    LET n == Min(Len(fs), Len(agents))
        found(i) == filter_agents_by_track_id(agents[i], selected_track_id)
        avail == [i \in 1..num_frames |->
                    IF i > n THEN 0
                    ELSE IF selected_track_id = NoTrack THEN 1
                    ELSE IF Len(found(i)) > 0 THEN 1 ELSE 0]
        positions_m == [i \in 1..num_frames |->
                    IF avail[i] = 0 THEN <<0, 0>>
                    ELSE IF selected_track_id = NoTrack THEN fs[i].ego_translation
                    ELSE found(i)[1].centroid]
    IN [pos |-> transform_points(positions_m, agent_from_world), avail |-> avail]

(***************************************************************************)
(* _get_frame_data.  A result is [err, vis]: err is "none" and vis the     *)
(* value, or err names the exception raised and vis is empty.  The lane    *)
(* colour loop runs over a Python set, whose order is not defined, so a    *)
(* call has a set of possible results.                                     *)
(***************************************************************************)
\* the face ids of the frame's faces, whatever their status
ActiveTlIds_any(tls_frame) == {tls_frame[i].face_id : i \in 1..Len(tls_frame)}

\* active_tl_ids: the face ids of the frame's ACTIVE faces
ActiveTlIds(tls_frame) ==
    LET act == filter_tl_faces_by_status(tls_frame, "ACTIVE")
    IN {act[i].face_id : i \in 1..Len(act)}

\* lane_tl_ids.intersection(active_tl_ids)
LaneActiveTlIds(m, lane_id, active_tl_ids) == m.lanes[lane_id].tl_ids \cap active_tl_ids

\* the exception of COLORS[mapAPI.get_color_for_face(tl_id)], or "none"
ColourError(m, tl_id) ==
    IF tl_id \notin DOMAIN m.faces THEN "LookupMiss"
    ELSE IF m.faces[tl_id] \notin DOMAIN COLORS THEN "KeyError"
    ELSE "none"

\* the values lane_colour can have after the loop over the intersection
LaneColours(m, lane_id, active_tl_ids) ==
    LET hit == LaneActiveTlIds(m, lane_id, active_tl_ids)
    IN IF hit = {} THEN {"gray"} ELSE {COLORS[m.faces[t]] : t \in hit}

\* LaneVisualisation of a lane: the left boundary, then the right one reversed
LaneVisualisation(m, lane_id, colour) ==
    LET left_lane == m.lanes[lane_id].xyz_left
        right_lane == Reverse(m.lanes[lane_id].xyz_right)
    IN [xs |-> Column(left_lane, 1) \o Column(right_lane, 1),
        ys |-> Column(left_lane, 2) \o Column(right_lane, 2),
        color |-> colour]

\* the loop over lane_indices: the results for the lanes from position k on
RECURSIVE LanesLoop(_, _, _, _)
LanesLoop(m, lane_indices, k, active_tl_ids) ==
    IF k > Len(lane_indices) THEN {[err |-> "none", vis |-> <<>>]}
    ELSE LET lane_id == m.lane_ids[lane_indices[k] + 1]
         IN IF lane_id \notin DOMAIN m.lanes THEN {[err |-> "LookupMiss", vis |-> <<>>]}
            ELSE LET hit == LaneActiveTlIds(m, lane_id, active_tl_ids)
                     bad == {t \in hit : ColourError(m, t) # "none"}
                 IN IF bad # {} THEN {[err |-> ColourError(m, t), vis |-> <<>>] : t \in bad}
                    ELSE {[err |-> r.err,
                           vis |-> IF r.err = "none"
                                   THEN <<LaneVisualisation(m, lane_id, c)>> \o r.vis
                                   ELSE <<>>] :
                            c \in LaneColours(m, lane_id, active_tl_ids),
                            r \in LanesLoop(m, lane_indices, k + 1, active_tl_ids)}

\* the loop over crosswalk_indices
RECURSIVE CrosswalksLoop(_, _, _)
CrosswalksLoop(m, crosswalk_indices, k) ==
    IF k > Len(crosswalk_indices) THEN [err |-> "none", vis |-> <<>>]
    ELSE LET cw_id == m.crosswalk_ids[crosswalk_indices[k] + 1]
             r == CrosswalksLoop(m, crosswalk_indices, k + 1)
         IN IF cw_id \notin DOMAIN m.crosswalks THEN [err |-> "LookupMiss", vis |-> <<>>]
            ELSE IF r.err # "none" THEN r
            ELSE [err |-> "none",
                  vis |-> <<[xs |-> Column(m.crosswalks[cw_id], 1),
                             ys |-> Column(m.crosswalks[cw_id], 2),
                             color |-> "yellow"]>> \o r.vis]

\* np.insert(agents_frame, 0, get_ego_as_agent(frame))
WithEgo(frame, agents_frame) == <<get_ego_as_agent(frame)>> \o agents_frame

\* the corners in the other direction of rotation
corners_base_coords_reversed == <<<<-1, -1>>, <<1, -1>>, <<1, 1>>, <<-1, 1>>>>

\* np.asarray([[-1, -1], [-1, 1], [1, 1], [1, -1]]); the factor 0.5 is in CornersM
corners_base_coords == <<<<-1, -1>>, <<-1, 1>>, <<1, 1>>, <<1, -1>>>>

\* corners_m of one agent: the corners of its box about the origin
CornersM(agent) ==
    [j \in 1..Len(corners_base_coords) |->
        <<(corners_base_coords[j][1] * agent.extent[1]) \div 2,
          (corners_base_coords[j][2] * agent.extent[2]) \div 2>>]

\* rotation_m of one agent: ((c, s), (-s, c))
RotationM(agent) ==
    <<<<CosQ(agent.yaw), SinQ(agent.yaw)>>, <<-SinQ(agent.yaw), CosQ(agent.yaw)>>>>

\* box_world_coords: corners_m @ rotation_m + centroid, for every row
BoxWorldCoords(agents) ==
    [i \in 1..Len(agents) |->
        LET cm == CornersM(agents[i])
            r == RotationM(agents[i])
        IN [j \in 1..Len(cm) |->
              <<cm[j][1] * r[1][1] + cm[j][2] * r[2][1] + agents[i].centroid[1],
                cm[j][1] * r[1][2] + cm[j][2] * r[2][2] + agents[i].centroid[2]>>]]

\* ego_vis: row 0 of the batch
EgoVisualisation(agents, box_world_coords) ==
    [xs |-> Column(box_world_coords[1], 1), ys |-> Column(box_world_coords[1], 2),
     color |-> "red", center_x |-> agents[1].centroid[1],
     center_y |-> agents[1].centroid[2]]

\* agents_frame[1:] and box_world_coords[1:]: the batch without the ego row
DropEgo(rows) == Tail(rows)

\* AgentVisualisation of one agent and its box
AgentVisualisation(agent, box_coord) ==
    LET label_index == ArgMax(agent.label_probabilities)
        agent_type == PERCEPTION_LABELS[label_index]
    IN [xs |-> Column(box_coord, 1), ys |-> Column(box_coord, 2),
        color |-> IF agent_type \notin DOMAIN COLORS THEN "#1F77B4" ELSE COLORS[agent_type],
        track_id |-> agent.track_id,
        type |-> agent_type,
        prob |-> agent.label_probabilities[label_index]]

\* agents_vis: the loop over zip(agents_frame, box_world_coords)
AgentsVis(agents, box_world_coords) ==
    [i \in 1..Min(Len(agents), Len(box_world_coords)) |->
        AgentVisualisation(agents[i], box_world_coords[i])]

\* the possible results of _get_frame_data(mapAPI, frame, agents_frame, tls_frame)
GetFrameData(m, frame, agents_frame, tls_frame) ==
    LET ego_xy == frame.ego_translation
        lane_indices == indices_in_bounds(ego_xy, m.lane_bounds, MapRadius)
        active_tl_ids == ActiveTlIds(tls_frame)
        crosswalk_indices == indices_in_bounds(ego_xy, m.crosswalk_bounds, MapRadius)
        cw == CrosswalksLoop(m, crosswalk_indices, 1)
        batch == WithEgo(frame, agents_frame)
        box_world_coords == BoxWorldCoords(batch)
    IN {IF lanes.err # "none" THEN [err |-> lanes.err, vis |-> <<>>]
        ELSE IF cw.err # "none" THEN [err |-> cw.err, vis |-> <<>>]
        ELSE [err |-> "none",
              vis |-> [ego |-> EgoVisualisation(batch, box_world_coords),
                       agents |-> AgentsVis(DropEgo(batch), DropEgo(box_world_coords)),
                       lanes |-> lanes.vis,
                       crosswalks |-> cw.vis,
                       trajectories |-> <<>>]] :
        lanes \in LanesLoop(m, lane_indices, 1, active_tl_ids)}

(***************************************************************************)
(* _get_frame_trajectories                                                 *)
(***************************************************************************)
\* a window that starts one frame late
Window_next(arr, frame_index, length) == PySlice(arr, frame_index + 1, frame_index + 1 + length)

\* the window of a per-scene array that starts at frame_index (0-based)
Window(arr, frame_index, length) == PySlice(arr, frame_index, frame_index + length)

\* the TrajectoryVisualisation of one track over its window
AgentTrajectory(fs, afs, track_id, frame_index) ==
    LET r == get_relative_poses(agent_traj_length,
                                Window(fs, frame_index, agent_traj_length), track_id,
                                Window(afs, frame_index, agent_traj_length), Eye3, 0)
    IN [xs |-> MaskedColumn(r.pos, r.avail, 1), ys |-> MaskedColumn(r.pos, r.avail, 2),
        color |-> "blue", legend_label |-> "agent_trajectory", track_id |-> track_id]

\* the TrajectoryVisualisation of the ego over its window
EgoTrajectory(fs, afs, frame_index) ==
    LET r == get_relative_poses(ego_traj_length,
                                Window(fs, frame_index, ego_traj_length), NoTrack,
                                Window(afs, frame_index, ego_traj_length), Eye3, 0)
    IN [xs |-> MaskedColumn(r.pos, r.avail, 1), ys |-> MaskedColumn(r.pos, r.avail, 2),
        color |-> "red", legend_label |-> "ego_trajectory", track_id |-> EgoTrackId]

\* the trajectories, without those that have no position
GetFrameTrajectories_nonempty(fs, afs, track_ids, frame_index) ==
    SelectSeq([k \in 1..Len(track_ids) |-> AgentTrajectory(fs, afs, track_ids[k], frame_index)],
              LAMBDA t : Len(t.xs) > 0)
        \o <<EgoTrajectory(fs, afs, frame_index)>>

\* _get_frame_trajectories(frames, agents_frames, track_ids, frame_index)
GetFrameTrajectories(fs, afs, track_ids, frame_index) ==
    [k \in 1..Len(track_ids) |-> AgentTrajectory(fs, afs, track_ids[k], frame_index)]
        \o <<EgoTrajectory(fs, afs, frame_index)>>

(***************************************************************************)
(* The inputs: scenes, maps.                                               *)
(***************************************************************************)
\* the rotation matrix of a yaw of q quarter turns
RotationOf(q) == <<<<CosQ(q), -SinQ(q), 0>>, <<SinQ(q), CosQ(q), 0>>, <<0, 0, 1>>>>

\* label probabilities over PERCEPTION_LABELS, in hundredths, by name
Probabilities(kind) ==
    CASE kind = "low" -> <<0, 5, 0, 0>>
      [] kind = "edge" -> <<0, 0, 10, 0>>
      [] kind = "high" -> <<20, 0, 0, 70>>
      [] OTHER -> <<90, 5, 0, 0>>

\* a row of the agents table
AgentRow(track_id, centroid, yaw, extent, kind) ==
    [track_id |-> track_id, centroid |-> centroid, yaw |-> yaw, extent |-> extent,
     label_probabilities |-> Probabilities(kind)]

\* a row of the traffic-light faces table
FaceRow(face_id, status) == [face_id |-> face_id, traffic_light_face_status |-> status]

\* the rows of the frames lo..hi, one frame after the other (by halves)
RECURSIVE Rows(_, _, _, _)
Rows(contents, field, lo, hi) ==
    IF lo > hi THEN <<>>
    ELSE IF lo = hi THEN contents[lo][field]
    ELSE LET mid == (lo + hi) \div 2
         IN Rows(contents, field, lo, mid) \o Rows(contents, field, mid + 1, hi)

\* the first row of frame i (1-based) in a table that holds each frame's rows in order
RowOffset(contents, field, i) == Len(Rows(contents, field, 1, i - 1))

\* the dataset of n_scenes scenes whose frames hold the contents given
\* (ego, rot, agents, tls per frame)
MakeDataset(n_scenes, contents) ==
    [scenes |-> n_scenes,
     frames |-> [i \in 1..Len(contents) |->
        [ego_translation |-> contents[i].ego,
         ego_rotation |-> RotationOf(contents[i].rot),
         agent_index_interval |->
            <<RowOffset(contents, "agents", i),
              RowOffset(contents, "agents", i) + Len(contents[i].agents)>>,
         traffic_light_faces_index_interval |->
            <<RowOffset(contents, "tls", i),
              RowOffset(contents, "tls", i) + Len(contents[i].tls)>>]],
     agents |-> Rows(contents, "agents", 1, Len(contents)),
     tl_faces |-> Rows(contents, "tls", 1, Len(contents))]

\* a straight lane from x0 to x1 about y = 0
LaneGeometry(x0, x1, tl_ids) ==
    [tl_ids |-> tl_ids,
     xyz_left |-> <<<<x0, 2>>, <<x1, 2>>>>,
     xyz_right |-> <<<<x0, -2>>, <<x1, -2>>>>]

\* the maps: two lanes "l1" (x in 0..10) and "l2" (x in 60..70), one crosswalk
\* "c1" (x in 40..44), two traffic-light faces "f1" and "f2"
MapOf(lanes, faces, crosswalks) ==
    [lane_ids |-> <<"l1", "l2">>,
     lane_bounds |-> <<<<<<0, -2>>, <<10, 2>>>>, <<<<60, -2>>, <<70, 2>>>>>>,
     lanes |-> lanes,
     faces |-> faces,
     crosswalk_ids |-> <<"c1">>,
     crosswalk_bounds |-> <<<<<<40, -3>>, <<44, 3>>>>>>,
     crosswalks |-> crosswalks]

BothLanes(tl1, tl2) ==
    [l \in {"l1", "l2"} |->
        IF l = "l1" THEN LaneGeometry(0, 10, tl1) ELSE LaneGeometry(60, 70, tl2)]

OnlyLane1(tl1) == [l \in {"l1"} |-> LaneGeometry(0, 10, tl1)]

FaceColours(c1, c2) == [f \in {"f1", "f2"} |-> IF f = "f1" THEN c1 ELSE c2]

Crosswalk1 == [c \in {"c1"} |-> <<<<40, -3>>, <<44, -3>>, <<44, 3>>, <<40, 3>>>>]

NoCrosswalk == [c \in {} |-> <<>>]

\* every identifier resolves, one face per lane
PlainMap == MapOf(BothLanes({"f1"}, {"f2"}), FaceColours("GREEN", "RED"), Crosswalk1)

Maps ==
    {PlainMap,
     \* both faces control lane l1
     MapOf(BothLanes({"f1", "f2"}, {}), FaceColours("GREEN", "YELLOW"), Crosswalk1),
     \* face f2 has a colour that COLORS does not hold
     MapOf(BothLanes({"f1"}, {"f2"}), FaceColours("GREEN", "UNKNOWN"), Crosswalk1),
     \* lane l2 is not found by the map service
     MapOf(OnlyLane1({"f1"}), FaceColours("GREEN", "RED"), Crosswalk1),
     \* face f2 is not found by the map service
     MapOf(BothLanes({"f1"}, {"f2"}), [f \in {"f1"} |-> "GREEN"], Crosswalk1),
     \* crosswalk c1 is not found by the map service
     MapOf(BothLanes({"f1"}, {"f2"}), FaceColours("GREEN", "RED"), NoCrosswalk)}

\* Family A: what the agents table holds for frame i (0-based); the agents move
AgentFrames(i) ==
    {<<>>,
     <<AgentRow(7, <<20 + i, 4>>, 0, <<4, 2>>, "low")>>,
     <<AgentRow(7, <<20 + i, 4>>, 1, <<4, 2>>, "high")>>,
     <<AgentRow(8, <<30 - i, -4>>, 0, <<2, 2>>, "high"),
       AgentRow(7, <<20 + i, 4>>, 2, <<4, 2>>, "edge")>>,
     <<AgentRow(7, <<20 + i, 4>>, 0, <<4, 2>>, "low"),
       AgentRow(8, <<30 - i, -4>>, 3, <<2, 2>>, "other")>>}

AgentContents(n) ==
    {c \in [1..n -> UNION {AgentFrames(i) : i \in 0..(n - 1)}] :
        \A i \in 1..n : c[i] \in AgentFrames(i - 1)}

AgentScenes ==
    {[ds |-> MakeDataset(n_scenes,
                [i \in 1..Len(c) |-> [ego |-> <<i - 1, 0>>, rot |-> 0, agents |-> c[i],
                                 tls |-> <<>>]]),
      map |-> PlainMap, traj |-> t] :
        n_scenes \in {1, 2}, t \in BOOLEAN,
        c \in UNION {AgentContents(n) : n \in 0..MaxFrames}}
\* Family L: the ego position and the traffic-light faces of a frame.  At x = 50
\* both lanes and the crosswalk are in reach, at x = 0 lane l1 alone, at x = 200
\* nothing is.
LaneFrames ==
    {[ego |-> <<50, 0>>, tls |-> <<FaceRow("f1", "ACTIVE")>>],
     [ego |-> <<50, 0>>, tls |-> <<FaceRow("f1", "INACTIVE"), FaceRow("f2", "ACTIVE")>>],
     [ego |-> <<50, 0>>, tls |-> <<FaceRow("f1", "UNKNOWN"), FaceRow("f2", "INACTIVE")>>],
     [ego |-> <<0, 0>>, tls |-> <<FaceRow("f2", "ACTIVE"), FaceRow("f1", "ACTIVE")>>],
     [ego |-> <<200, 0>>, tls |-> <<FaceRow("f2", "ACTIVE")>>]}

LaneScenes ==
    {[ds |-> MakeDataset(1,
                [i \in 1..Len(c) |-> [ego |-> c[i].ego, rot |-> 0, agents |-> <<>>,
                                      tls |-> c[i].tls]]),
      map |-> m, traj |-> FALSE] :
        m \in Maps, c \in UNION {[1..n -> LaneFrames] : n \in 1..MaxFrames}}

\* Family G: one frame, one agent: every yaw, two extents, two centroids
GeometryScenes ==
    {[ds |-> MakeDataset(1,
                <<[ego |-> ego, rot |-> rot,
                   agents |-> <<AgentRow(7, centroid, yaw, extent, "high")>>,
                   tls |-> <<>>]>>),
      map |-> PlainMap, traj |-> FALSE] :
        ego \in {<<0, 0>>, <<3, -7>>}, rot \in 0..3, centroid \in {<<5, 5>>, <<-3, 8>>},
        yaw \in -1..2, extent \in {<<4, 2>>, <<2, 6>>}}

\* Family W: a scene longer than both windows, no map element in reach; track 7
\* is in every frame, or in every second frame from the first on
LongScenes ==
    {[ds |-> MakeDataset(1,
                [i \in 1..LongFrames |->
                    [ego |-> <<1000 + i, i>>, rot |-> 0,
                     agents |-> IF (i - 1) % step = 0
                                THEN <<AgentRow(7, <<2000 - i, 7>>, 0, <<4, 2>>, "high")>>
                                ELSE <<>>,
                     tls |-> <<>>]]),
      map |-> PlainMap, traj |-> TRUE] : step \in 1..2}

\* the track id arrays of a direct call of _get_frame_trajectories; track 9 is in
\* no frame of any scene
TrackIdLists == {<<>>, <<8, 9, 7>>}

\* visualise_scene has not been called
NoViewer == [pc |-> "idle", frames |-> <<>>, value |-> 0, js_error |-> FALSE]

NoTrajCall == [called |-> FALSE, track_ids |-> <<>>, frame_index |-> 0, result |-> <<>>]

Pending == [kind |-> "pending", value |-> <<>>, error |-> "none"]

(***************************************************************************)
(* zarr_to_visualizer_scene                                                *)
(***************************************************************************)
Init ==
    /\ \E s \in AgentScenes \cup LaneScenes \cup GeometryScenes \cup LongScenes :
        /\ scene_dataset = s.ds
        /\ mapAPI = s.map
        /\ with_trajectories = s.traj
    /\ pc = "idle"
    /\ frames = <<>>
    /\ agents_frames = <<>>
    /\ tls_frames = <<>>
    /\ frame_idx = 0
    /\ frames_vis = <<>>
    /\ map_used = FALSE
    /\ outcome = Pending
    /\ traj_call = NoTrajCall
    /\ viewer = NoViewer

\* a check that lets a dataset of several scenes through
WrongSceneCount_empty(n_scenes) == n_scenes < 1

\* if len(scene_dataset.scenes) != 1
WrongSceneCount(n_scenes) == n_scenes # 1

\* what the caller gets when the call raises: the exception, and no value
Raised(error) == [kind |-> "exception", value |-> <<>>, error |-> error]

\* the call, up to the loop: the check of the scene count, then the locals
Call ==
    /\ pc = "idle"
    /\ IF WrongSceneCount(scene_dataset.scenes)
       THEN /\ pc' = "raised"
            /\ outcome' = Raised("ValueError")
            /\ UNCHANGED <<frames, agents_frames, tls_frames>>
       ELSE /\ pc' = "loop"
            /\ frames' = scene_dataset.frames
            /\ agents_frames' = filter_agents_by_frames(scene_dataset.frames,
                                                        scene_dataset.agents)
            /\ tls_frames' = filter_tl_faces_by_frames(scene_dataset.frames,
                                                       scene_dataset.tl_faces)
            /\ UNCHANGED outcome
    /\ frame_idx' = 0
    /\ frames_vis' = <<>>
    /\ UNCHANGED <<scene_dataset, mapAPI, with_trajectories, map_used, traj_call, viewer>>

\* the frame's agents, not filtered
FilteredAgents_all(afs, idx) == afs[idx + 1]

\* agents_frame = filter_agents_by_labels(agents_frames[frame_idx], 0.1)
FilteredAgents(afs, idx) == filter_agents_by_labels(afs[idx + 1], LabelThreshold)

\* the faces of the frames up to this one
TlsFrame_carried(tfs, idx) == IF idx = 0 THEN tfs[1] ELSE tfs[idx] \o tfs[idx + 1]

\* tls_frame = tls_frames[frame_idx]
TlsFrame(tfs, idx) == tfs[idx + 1]

\* agents_frame["track_id"]
TrackIds(agents_frame) == [k \in 1..Len(agents_frame) |-> agents_frame[k].track_id]

\* the possible results of one iteration of the loop: the frame's record, with
\* its trajectories when they are asked for, or the exception
FrameResults(m, fs, afs, tfs, idx, with_traj) ==
    LET agents_frame == FilteredAgents(afs, idx)
    IN {IF r.err # "none" \/ ~with_traj THEN r
        ELSE [err |-> "none",
              vis |-> [ego |-> r.vis.ego, agents |-> r.vis.agents, lanes |-> r.vis.lanes,
                       crosswalks |-> r.vis.crosswalks,
                       trajectories |->
                            GetFrameTrajectories(fs, afs, TrackIds(agents_frame), idx)]] :
        r \in GetFrameData(m, fs[idx + 1], agents_frame, TlsFrame(tfs, idx))}

\* a loop that stops one frame early
InRange_short(idx, n) == idx < n - 1

\* for frame_idx in range(len(frames)): whether the loop has a next iteration
InRange(idx, n) == idx < n

\* one iteration of the loop that appends the frame's record
LoopStep ==
    /\ pc = "loop"
    /\ InRange(frame_idx, Len(frames))
    /\ \E r \in FrameResults(mapAPI, frames, agents_frames, tls_frames, frame_idx,
                             with_trajectories) :
        /\ r.err = "none"
        /\ frames_vis' = Append(frames_vis, r.vis)
    /\ frame_idx' = frame_idx + 1
    /\ map_used' = TRUE
    /\ UNCHANGED <<scene_dataset, mapAPI, with_trajectories, pc, frames, agents_frames,
                   tls_frames, outcome, traj_call, viewer>>

\* an iteration that raises is skipped, and the loop goes on
LoopRaise_skip ==
    /\ pc = "loop"
    /\ InRange(frame_idx, Len(frames))
    /\ \E r \in FrameResults(mapAPI, frames, agents_frames, tls_frames, frame_idx,
                             with_trajectories) : r.err # "none"
    /\ frame_idx' = frame_idx + 1
    /\ map_used' = TRUE
    /\ UNCHANGED <<scene_dataset, mapAPI, with_trajectories, pc, frames, agents_frames,
                   tls_frames, frames_vis, outcome, traj_call, viewer>>

\* one iteration of the loop that raises: the exception leaves the function
LoopRaise ==
    /\ pc = "loop"
    /\ InRange(frame_idx, Len(frames))
    /\ \E r \in FrameResults(mapAPI, frames, agents_frames, tls_frames, frame_idx,
                             with_trajectories) :
        /\ r.err # "none"
        /\ outcome' = Raised(r.err)
    /\ pc' = "raised"
    /\ map_used' = TRUE
    /\ UNCHANGED <<scene_dataset, mapAPI, with_trajectories, frames, agents_frames,
                   tls_frames, frame_idx, frames_vis, traj_call, viewer>>

\* return frames_vis
Return ==
    /\ pc = "loop"
    /\ ~InRange(frame_idx, Len(frames))
    /\ pc' = "returned"
    /\ outcome' = [kind |-> "value", value |-> frames_vis, error |-> "none"]
    /\ UNCHANGED <<scene_dataset, mapAPI, with_trajectories, frames, agents_frames,
                   tls_frames, frame_idx, frames_vis, map_used, traj_call, viewer>>

\* a direct call of _get_frame_trajectories on the scene's frames
CallTrajectories ==
    /\ pc = "idle"
    /\ \E track_ids \in TrackIdLists, frame_index \in 0..(Len(scene_dataset.frames) - 1) :
        traj_call' =
            [called |-> TRUE, track_ids |-> track_ids, frame_index |-> frame_index,
             result |-> GetFrameTrajectories(
                            scene_dataset.frames,
                            filter_agents_by_frames(scene_dataset.frames,
                                                    scene_dataset.agents),
                            track_ids, frame_index)]
    /\ pc' = "traj_returned"
    /\ UNCHANGED <<scene_dataset, mapAPI, with_trajectories, frames, agents_frames,
                   tls_frames, frame_idx, frames_vis, map_used, outcome, viewer>>

Next == Call \/ LoopStep \/ LoopRaise \/ Return \/ CallTrajectories

Spec == Init /\ [][Next]_vars

(***************************************************************************)
(* The scene as the claims read it, from the dataset's tables alone.       *)
(***************************************************************************)
\* the number of frames of the scene
NFrames == Len(scene_dataset.frames)

\* the rows of the agents table of frame i (1-based)
FrameAgentRows(i) ==
    LET iv == scene_dataset.frames[i].agent_index_interval
    IN [k \in 1..(iv[2] - iv[1]) |-> scene_dataset.agents[iv[1] + k]]

\* the rows of the traffic-light faces table of frame i (1-based)
FrameFaceRows(i) ==
    LET iv == scene_dataset.frames[i].traffic_light_faces_index_interval
    IN [k \in 1..(iv[2] - iv[1]) |-> scene_dataset.tl_faces[iv[1] + k]]

\* the largest label probability of an agent row
TopProbability(a) ==
    CHOOSE p \in {a.label_probabilities[j] : j \in 1..Len(a.label_probabilities)} :
        \A j \in 1..Len(a.label_probabilities) : a.label_probabilities[j] <= p

\* the rows of frame i (1-based) whose top label probability is not below 0.1
KeptRows(i) == SelectSeq(FrameAgentRows(i), LAMBDA a : TopProbability(a) >= 10)

\* the sum of a sequence of four numbers
Sum4(s) == s[1] + s[2] + s[3] + s[4]

\* zarr_to_visualizer_scene has been called (and not _get_frame_trajectories)
SceneCalled == pc \in {"loop", "returned", "raised"}

(***************************************************************************)
(* C1. A dataset that holds more than one scene makes                      *)
(* zarr_to_visualizer_scene fail with ValueError before any frame is       *)
(* converted: the map is not read, no record is built, none is returned.   *)
(***************************************************************************)
C1_MultiSceneFails ==
    (SceneCalled /\ scene_dataset.scenes > 1) =>
        /\ pc = "raised"
        /\ outcome = [kind |-> "exception", value |-> <<>>, error |-> "ValueError"]
        /\ ~map_used
        /\ frames_vis = <<>>
        /\ frame_idx = 0

\* a dataset of two scenes, with frames to convert, has been refused
C1_Witness ==
    /\ pc = "raised"
    /\ scene_dataset.scenes = 2
    /\ NFrames >= 2
    /\ scene_dataset.agents # <<>>

(***************************************************************************)
(* C2. For a single scene of N frames a call that succeeds returns exactly *)
(* N records, the i-th from the i-th frame, each with one ego entry built  *)
(* from that frame's ego pose (four corners about the ego position),       *)
(* whatever the number of agents of the frame.  While the loop runs the    *)
(* list holds one record per frame already converted.                      *)
(***************************************************************************)
C2_OneRecordPerFrame ==
    /\ pc = "loop" => Len(frames_vis) = frame_idx /\ frame_idx <= NFrames
    /\ pc = "returned" =>
        /\ scene_dataset.scenes = 1
        /\ outcome.kind = "value"
        /\ Len(outcome.value) = NFrames
        /\ \A i \in 1..NFrames :
            LET ego == outcome.value[i].ego
                at == scene_dataset.frames[i].ego_translation
            IN /\ ego.center_x = at[1] /\ ego.center_y = at[2]
               /\ Len(ego.xs) = 4 /\ Len(ego.ys) = 4
               /\ Sum4(ego.xs) = 4 * at[1] /\ Sum4(ego.ys) = 4 * at[2]
               /\ ego.color = "red"

\* a scene of three frames at three ego positions was converted, one of its
\* frames without any agent and one with two
C2_Witness ==
    /\ pc = "returned"
    /\ NFrames = 3
    /\ \E i, j \in 1..3 :
        /\ Len(FrameAgentRows(i)) = 0 /\ outcome.value[i].agents = <<>>
        /\ Len(outcome.value[j].agents) = 2

(***************************************************************************)
(* C3. In every record the agents are exactly the agents of that frame     *)
(* whose top label probability is not below 0.1, in their order in the     *)
(* frame; an agent below 0.1 is in no record, and the ego row is never     *)
(* among the agents.                                                       *)
(***************************************************************************)
C3_AgentsFiltered ==
    \A i \in 1..Len(frames_vis) :
        LET kept == KeptRows(i)
            shown == frames_vis[i].agents
        IN /\ Len(shown) = Len(kept)
           /\ \A k \in 1..Len(shown) :
                /\ shown[k].track_id = kept[k].track_id
                /\ shown[k].prob = TopProbability(kept[k])
                /\ shown[k].prob >= 10
                /\ shown[k].track_id # EgoTrackId
                /\ Sum4(shown[k].xs) = 4 * kept[k].centroid[1]
                /\ Sum4(shown[k].ys) = 4 * kept[k].centroid[2]

\* a frame with an agent at 0.05 and one above the threshold was converted, and
\* a frame whose second agent is at 0.1 exactly
C3_Witness ==
    \E i, j \in 1..Len(frames_vis) :
        /\ Len(FrameAgentRows(i)) = 2 /\ Len(frames_vis[i].agents) = 1
        /\ TopProbability(FrameAgentRows(i)[1]) = 5
        /\ Len(frames_vis[j].agents) = 2 /\ frames_vis[j].agents[2].prob = 10

(***************************************************************************)
(* Trajectories as the claims read them.                                   *)
(***************************************************************************)
\* whether a row of frame i (1-based) has the track id
InFrame(track_id, i) ==
    \E k \in 1..Len(FrameAgentRows(i)) : FrameAgentRows(i)[k].track_id = track_id

\* the first row of frame i (1-based) with the track id
RowOf(track_id, i) ==
    LET rows == FrameAgentRows(i)
    IN rows[CHOOSE k \in 1..Len(rows) :
                /\ rows[k].track_id = track_id
                /\ \A j \in 1..(k - 1) : rows[j].track_id # track_id]

\* the track ids of the agents kept in frame i (1-based)
KeptIds(i) == [k \in 1..Len(KeptRows(i)) |-> KeptRows(i)[k].track_id]

\* a trajectory list holds one agent trajectory per id, in order, then the ego's
ListMatches(t, ids) ==
    /\ Len(t) = Len(ids) + 1
    /\ \A k \in 1..Len(ids) :
        t[k].track_id = ids[k] /\ t[k].legend_label = "agent_trajectory"
    /\ t[Len(t)].track_id = -1 /\ t[Len(t)].legend_label = "ego_trajectory"

\* the steps (0-based) of the window of the given length from frame start
\* (0-based) whose availability flag is true
AvailableSteps(start, length, is_ego, track_id) ==
    {j \in 0..(length - 1) :
        /\ start + j < NFrames
        /\ is_ego \/ InFrame(track_id, start + j + 1)}

\* the position of the ego or of the track at step j of the window
PositionAt(start, j, is_ego, track_id) ==
    IF is_ego THEN scene_dataset.frames[start + j + 1].ego_translation
    ELSE RowOf(track_id, start + j + 1).centroid

\* the trajectory holds the positions of the available steps, in frame order
HoldsAvailable(t, start, length, is_ego) ==
    LET steps == AvailableSteps(start, length, is_ego, t.track_id)
    IN /\ Len(t.xs) = Cardinality(steps)
       /\ Len(t.ys) = Cardinality(steps)
       /\ Len(t.xs) <= length
       /\ \A j \in steps :
            LET at == 1 + Cardinality({i \in steps : i < j})
            IN /\ t.xs[at] = PositionAt(start, j, is_ego, t.track_id)[1]
               /\ t.ys[at] = PositionAt(start, j, is_ego, t.track_id)[2]

\* every trajectory of a list built at frame start holds its available steps
ListHoldsAvailable(t, start) ==
    \A k \in 1..Len(t) :
        IF k = Len(t) THEN HoldsAvailable(t[k], start, 100, TRUE)
        ELSE HoldsAvailable(t[k], start, 20, FALSE)

\* in a list built at frame start (0-based) the ego trajectory has as many
\* positions as its window has frames, an agent trajectory at most as many
WindowsCut(t, start) ==
    \A k \in 1..Len(t) :
        IF k = Len(t) THEN Len(t[k].xs) = Min(100, NFrames - start)
        ELSE Len(t[k].xs) <= Min(20, NFrames - start)

\* the records to look at in a state: the one just appended while the loop runs
\* (the loop only appends), all of them once the list is returned
NewRecords ==
    IF pc = "returned" THEN 1..Len(frames_vis)
    ELSE {i \in 1..Len(frames_vis) : i = Len(frames_vis)}

(***************************************************************************)
(* C4. With trajectories, the trajectory list of a frame has one entry per *)
(* track id of the frame's filtered agents, carrying that id, and one ego  *)
(* entry with track id -1: len(track_ids) + 1 entries.  A track id that is *)
(* in no frame of the window still has its entry, with no position.        *)
(* Without trajectories the list is empty.                                 *)
(***************************************************************************)
C4_TrajectoryPerTrack ==
    /\ \A i \in 1..Len(frames_vis) :
        IF with_trajectories
        THEN ListMatches(frames_vis[i].trajectories, KeptIds(i))
        ELSE frames_vis[i].trajectories = <<>>
    /\ traj_call.called =>
        /\ ListMatches(traj_call.result, traj_call.track_ids)
        /\ \A k \in 1..Len(traj_call.track_ids) :
            AvailableSteps(traj_call.frame_index, 20, FALSE, traj_call.track_ids[k]) = {}
                => traj_call.result[k].xs = <<>> /\ traj_call.result[k].ys = <<>>

\* _get_frame_trajectories was called for tracks 8, 9 and 7: track 9, in no
\* frame, has an entry without positions between two that have some
C4_Witness ==
    /\ traj_call.called
    /\ Len(traj_call.result) = 4
    /\ traj_call.result[1].xs # <<>>
    /\ traj_call.result[2].track_id = 9 /\ traj_call.result[2].xs = <<>>
    /\ traj_call.result[3].xs # <<>>

(***************************************************************************)
(* C5. The positions of a trajectory (ego window 100, agent window 20) are *)
(* those of the window steps whose availability flag is true, in frame     *)
(* order: as many as the mask has true entries, never more than the        *)
(* window; for an agent a step is available exactly when the track id is   *)
(* among that frame's agents.                                              *)
(***************************************************************************)
C5_PositionsOfAvailableSteps ==
    /\ with_trajectories =>
        \A i \in NewRecords : ListHoldsAvailable(frames_vis[i].trajectories, i - 1)
    /\ traj_call.called => ListHoldsAvailable(traj_call.result, traj_call.frame_index)

\* the first frame of a scene longer than both windows: the ego trajectory fills
\* its window of 100, the track that is in every second frame has 10 positions
\* in its window of 20
C5_Witness ==
    /\ with_trajectories
    /\ Len(frames_vis) = 1
    /\ NFrames > 100
    /\ Len(frames_vis[1].trajectories) = 2
    /\ Len(frames_vis[1].trajectories[1].xs) = 10
    /\ Len(frames_vis[1].trajectories[2].xs) = 100

(***************************************************************************)
(* C6. For every start frame, the last frames of the scene included, the   *)
(* extraction of trajectories does not fail and the window is cut to the   *)
(* frames that exist: the ego trajectory has min(100, N - start)           *)
(* positions, an agent trajectory at most min(20, N - start).  A call      *)
(* raises only for the scene count or for the map.                         *)
(***************************************************************************)
C6_WindowCutAtSceneEnd ==
    /\ with_trajectories =>
        \A i \in 1..Len(frames_vis) :
            /\ frames_vis[i].trajectories # <<>>
            /\ WindowsCut(frames_vis[i].trajectories, i - 1)
    /\ traj_call.called =>
        /\ pc = "traj_returned"
        /\ WindowsCut(traj_call.result, traj_call.frame_index)
    /\ pc = "raised" =>
        \/ outcome.error = "ValueError" /\ scene_dataset.scenes # 1
        \/ outcome.error \in {"LookupMiss", "KeyError"} /\ mapAPI # PlainMap

\* the last frame of a scene of several frames was converted with its
\* trajectories: one position for the ego and one for the frame's agent
C6_Witness ==
    /\ with_trajectories
    /\ NFrames >= 2
    /\ Len(frames_vis) = NFrames
    /\ Len(frames_vis[NFrames].trajectories) = 2
    /\ Len(frames_vis[NFrames].trajectories[1].xs) = 1
    /\ Len(frames_vis[NFrames].trajectories[2].xs) = 1

(***************************************************************************)
(* The map and the traffic lights as the claims read them.                 *)
(***************************************************************************)
\* the positions in mapAPI.lane_ids of the lanes in reach of the ego of frame i
\* (1-based), in ascending order
LanesInReach(i) ==
    LET at == scene_dataset.frames[i].ego_translation
        b == mapAPI.lane_bounds
    IN SelectSeq([k \in 1..Len(b) |-> k], LAMBDA k :
            /\ b[k][1][1] - 50 < at[1] /\ at[1] < b[k][2][1] + 50
            /\ b[k][1][2] - 50 < at[2] /\ at[2] < b[k][2][2] + 50)

\* the crosswalks in reach of the ego of frame i (1-based)
CrosswalksInReach(i) ==
    LET at == scene_dataset.frames[i].ego_translation
        b == mapAPI.crosswalk_bounds
    IN {mapAPI.crosswalk_ids[k] : k \in {k \in 1..Len(b) :
            /\ b[k][1][1] - 50 < at[1] /\ at[1] < b[k][2][1] + 50
            /\ b[k][1][2] - 50 < at[2] /\ at[2] < b[k][2][2] + 50}}

\* the ids of the faces that are ACTIVE in frame i (1-based)
ActiveFaces(i) ==
    {FrameFaceRows(i)[k].face_id : k \in {k \in 1..Len(FrameFaceRows(i)) :
        FrameFaceRows(i)[k].traffic_light_face_status = "ACTIVE"}}

\* the ids of the faces that frame i (1-based) holds
PresentFaces(i) == {FrameFaceRows(i)[k].face_id : k \in 1..Len(FrameFaceRows(i))}

\* the active control points of the lane at position k of mapAPI.lane_ids, in
\* frame i (1-based)
ActiveControls(k, i) == mapAPI.lanes[mapAPI.lane_ids[k]].tl_ids \cap ActiveFaces(i)

\* the conversion of frame i (1-based) raises: an element in reach that the map
\* service does not find, or an active face of a lane in reach that it does not
\* find or whose colour COLORS does not hold
FrameFaulty(i) ==
    \/ \E k \in {LanesInReach(i)[n] : n \in 1..Len(LanesInReach(i))} :
        \/ mapAPI.lane_ids[k] \notin DOMAIN mapAPI.lanes
        \/ \E t \in ActiveControls(k, i) :
            \/ t \notin DOMAIN mapAPI.faces
            \/ mapAPI.faces[t] \notin {"GREEN", "RED", "YELLOW"}
    \/ \E c \in CrosswalksInReach(i) : c \notin DOMAIN mapAPI.crosswalks

(***************************************************************************)
(* C7. A lane none of whose traffic-control points is among the frame's    *)
(* ACTIVE faces is "gray", also when its control points are in the frame   *)
(* without being active and when other lanes have active control points.   *)
(***************************************************************************)
C7_NoActiveControlIsGray ==
    \A i \in 1..Len(frames_vis) :
        /\ Len(frames_vis[i].lanes) = Len(LanesInReach(i))
        /\ \A n \in 1..Len(frames_vis[i].lanes) :
            ActiveControls(LanesInReach(i)[n], i) = {}
                => frames_vis[i].lanes[n].color = "gray"

\* a frame whose first lane has its control point in the frame, not active, and
\* is gray, while the second lane is coloured by its active control point
C7_Witness ==
    \E i \in 1..Len(frames_vis) :
        /\ Len(frames_vis[i].lanes) = 2
        /\ mapAPI.lanes["l1"].tl_ids \cap PresentFaces(i) # {}
        /\ mapAPI.lanes["l1"].tl_ids \cap ActiveFaces(i) = {}
        /\ frames_vis[i].lanes[1].color = "gray"
        /\ frames_vis[i].lanes[2].color = "#FF3300"

(***************************************************************************)
(* C8. When the conversion of a frame raises (a lane, crosswalk or face    *)
(* the map service does not find, a signal colour COLORS does not hold),   *)
(* the call ends with the exception and the caller gets no list, not even  *)
(* the records of the frames converted before; a list is returned only     *)
(* when no frame of the scene raises.                                      *)
(***************************************************************************)
C8_ErrorAbortsScene ==
    /\ pc = "raised" =>
        /\ outcome.kind = "exception"
        /\ outcome.error # "none"
        /\ outcome.value = <<>>
    /\ outcome.kind = "value" =>
        /\ pc = "returned"
        /\ \A i \in 1..NFrames : ~FrameFaulty(i)
    /\ pc = "loop" => \A i \in 1..Len(frames_vis) : ~FrameFaulty(i)
    /\ (pc = "raised" /\ scene_dataset.scenes = 1) => FrameFaulty(frame_idx + 1)

\* the third frame of a scene raised after two frames had been converted
C8_Witness ==
    /\ pc = "raised"
    /\ Len(frames_vis) = 2
    /\ outcome.error = "KeyError"
    /\ outcome.value = <<>>

(***************************************************************************)
(* C9. For an agent, and for the ego, with yaw 0, centroid (cx, cy) and    *)
(* extent (L, W), the polygon has four corners: (cx - L/2, cy - W/2),      *)
(* (cx - L/2, cy + W/2), (cx + L/2, cy + W/2), (cx + L/2, cy - W/2), in    *)
(* that order; their mean is the centroid.                                 *)
(***************************************************************************)
AxisAlignedBox(v, centroid, extent) ==
    /\ v.xs = <<centroid[1] - extent[1] \div 2, centroid[1] - extent[1] \div 2,
                centroid[1] + extent[1] \div 2, centroid[1] + extent[1] \div 2>>
    /\ v.ys = <<centroid[2] - extent[2] \div 2, centroid[2] + extent[2] \div 2,
                centroid[2] + extent[2] \div 2, centroid[2] - extent[2] \div 2>>
    /\ Sum4(v.xs) = 4 * centroid[1]
    /\ Sum4(v.ys) = 4 * centroid[2]

C9_YawZeroBoxIsAxisAligned ==
    \A i \in 1..Len(frames_vis) :
        /\ scene_dataset.frames[i].ego_rotation = Eye3 =>
            AxisAlignedBox(frames_vis[i].ego, scene_dataset.frames[i].ego_translation,
                           get_ego_as_agent(scene_dataset.frames[i]).extent)
        /\ \A k \in 1..Len(frames_vis[i].agents) :
            /\ Len(frames_vis[i].agents[k].xs) = 4
            /\ Len(frames_vis[i].agents[k].ys) = 4
            /\ KeptRows(i)[k].yaw = 0 =>
                AxisAlignedBox(frames_vis[i].agents[k], KeptRows(i)[k].centroid,
                               KeptRows(i)[k].extent)

\* a frame with an agent of yaw 0 and extent (2, 6) away from the origin, and
\* the ego of yaw 0 at (3, -7)
C9_Witness ==
    /\ Len(frames_vis) = 1
    /\ scene_dataset.frames[1].ego_rotation = Eye3
    /\ scene_dataset.frames[1].ego_translation = <<3, -7>>
    /\ Len(frames_vis[1].agents) = 1
    /\ KeptRows(1)[1].yaw = 0
    /\ KeptRows(1)[1].extent = <<2, 6>>
    /\ frames_vis[1].agents[1].xs = <<-4, -4, -2, -2>>
    /\ frames_vis[1].agents[1].ys = <<5, 11, 11, 5>>

(***************************************************************************)
(* C10. The traffic-signal status is frame-scoped: the colour of a lane in *)
(* the record of frame N comes only from the faces that are ACTIVE in      *)
(* frame N's own traffic-signal interval.  A face that was active in an    *)
(* earlier frame and is not in frame N colours no lane of frame N.         *)
(***************************************************************************)
C10_SignalStatusIsFrameScoped ==
    \A i \in 1..Len(frames_vis) :
        \A n \in 1..Len(frames_vis[i].lanes) :
            LET own == ActiveControls(LanesInReach(i)[n], i)
            IN frames_vis[i].lanes[n].color \in
                (IF own = {} THEN {"gray"}
                 ELSE {COLORS[mapAPI.faces[t]] : t \in own})

\* lane l1 was green in a frame where face f1 was active, and is gray in the
\* next frame, where f1 is not active any more
C10_Witness ==
    \E i \in 2..Len(frames_vis) :
        /\ "f1" \in ActiveFaces(i - 1)
        /\ "f1" \notin ActiveFaces(i)
        /\ mapAPI.lanes["l1"].tl_ids = {"f1"}
        /\ Len(frames_vis[i - 1].lanes) = 2
        /\ Len(frames_vis[i].lanes) = 2
        /\ frames_vis[i - 1].lanes[1].color = "#33CC33"
        /\ frames_vis[i].lanes[1].color = "gray"

(***************************************************************************)
(* visualiser.py: visualise_scene and get_frame_data.  The page holds one  *)
(* set of data sources per frame (out), draws the sources of the last      *)
(* frame (out[-1]) and changes their data in the slider's callback.        *)
(* viewer.frames[i] is the data of the sources of frame i as they are now; *)
(* what the page displays is the data of the sources of the last frame.    *)
(* The scenes are single scenes at index 0, on a map where every           *)
(* identifier resolves.                                                    *)
(***************************************************************************)
\* the pose of the ego: the rotation by yaw (quarter turns) and the translation
compute_agent_pose(ego_xy, yaw) ==
    <<<<CosQ(yaw), -SinQ(yaw), ego_xy[1]>>,
      <<SinQ(yaw), CosQ(yaw), ego_xy[2]>>,
      <<0, 0, 1>>>>

\* np.linalg.inv of a pose: the transposed rotation and the translation it maps
\* to the origin
InversePose(m) ==
    <<<<m[1][1], m[2][1], -(m[1][1] * m[1][3] + m[2][1] * m[2][3])>>,
      <<m[1][2], m[2][2], -(m[1][2] * m[1][3] + m[2][2] * m[2][3])>>,
      <<0, 0, 1>>>>

\* get_frame_data(mapAPI, frame, agents): the lanes, the crosswalks, the ego and
\* the agents of a frame, in the ego's coordinates
get_frame_data(m, frame, agents) ==
    LET ego_xy == frame.ego_translation
        ego_yaw == rotation33_as_yaw(frame.ego_rotation)
        agent_from_world == InversePose(compute_agent_pose(ego_xy, ego_yaw))
        lane_indices == indices_in_bounds(ego_xy, m.lane_bounds, MapRadius)
        lane(k) == m.lanes[m.lane_ids[lane_indices[k] + 1]]
        left_lane(k) == transform_points(lane(k).xyz_left, agent_from_world)
        right_lane(k) == transform_points(Reverse(lane(k).xyz_right), agent_from_world)
        crosswalk_indices == indices_in_bounds(ego_xy, m.crosswalk_bounds, MapRadius)
        crosswalk(k) ==
            transform_points(m.crosswalks[m.crosswalk_ids[crosswalk_indices[k] + 1]],
                             agent_from_world)
        batch == WithEgo(frame, filter_agents_by_labels(agents, LabelThreshold))
        box_world_coords == BoxWorldCoords(batch)
        box_agent_coords ==
            [i \in 1..Len(batch) |-> transform_points(box_world_coords[i], agent_from_world)]
        shown == DropEgo(batch)
        boxes == DropEgo(box_agent_coords)
        label_index(k) == ArgMax(shown[k].label_probabilities)
    IN [lanes |->
            [x |-> [k \in 1..Len(lane_indices) |->
                        Column(left_lane(k), 1) \o Column(right_lane(k), 1)],
             y |-> [k \in 1..Len(lane_indices) |->
                        Column(left_lane(k), 2) \o Column(right_lane(k), 2)]],
        crosswalks |->
            [x |-> [k \in 1..Len(crosswalk_indices) |-> Column(crosswalk(k), 1)],
             y |-> [k \in 1..Len(crosswalk_indices) |-> Column(crosswalk(k), 2)]],
        ego |->
            [x |-> <<Column(box_agent_coords[1], 1)>>,
             y |-> <<Column(box_agent_coords[1], 2)>>],
        agent |->
            [x |-> [k \in 1..Len(shown) |-> Column(boxes[k], 1)],
             y |-> [k \in 1..Len(shown) |-> Column(boxes[k], 2)],
             id |-> [k \in 1..Len(shown) |-> shown[k].track_id],
             name |-> [k \in 1..Len(shown) |-> PERCEPTION_LABELS[label_index(k)]],
             p |-> [k \in 1..Len(shown) |-> shown[k].label_probabilities[label_index(k)]]]]

\* out: the data of the sources built by the loop over the frames of the scene
FrameSources(ds, m) ==
    LET fs == ds.frames
        afs == filter_agents_by_frames(fs, ds.agents)
    IN [i \in 1..Len(fs) |-> get_frame_data(m, fs[i], afs[i])]

\* Slider(start=0, end=len(frames), value=0, step=1): the values of the slider
SliderValues(n_frames) == 0..n_frames

\* the callback: the data of the sources drawn, which are those of the last
\* frame, become the data of frames[value]; [err, frames] with err "TypeError"
\* when frames[value] is undefined
Callback(sources, value) ==
    IF value >= Len(sources) THEN [err |-> "TypeError", frames |-> sources]
    ELSE [err |-> "none",
          frames |-> [sources EXCEPT ![Len(sources)] = sources[value + 1]]]

\* the scenes of the viewer: one scene, the ego moving along the lane
ViewerScenes == {s \in AgentScenes : s.ds.scenes = 1 /\ ~s.traj}

InitViewer ==
    /\ \E s \in ViewerScenes :
        /\ scene_dataset = s.ds
        /\ mapAPI = s.map
        /\ with_trajectories = s.traj
    /\ pc = "idle"
    /\ frames = <<>>
    /\ agents_frames = <<>>
    /\ tls_frames = <<>>
    /\ frame_idx = 0
    /\ frames_vis = <<>>
    /\ map_used = FALSE
    /\ outcome = Pending
    /\ traj_call = NoTrajCall
    /\ viewer = NoViewer

\* visualise_scene(zarr_dataset, 0, mapAPI): the page is saved with the slider at
\* 0, or the call raises on out[-1] for a scene without frames
VisualiseScene ==
    /\ viewer.pc = "idle"
    /\ LET out == FrameSources(scene_dataset, mapAPI)
       IN viewer' = IF Len(out) = 0
                    THEN [viewer EXCEPT !.pc = "raised"]
                    ELSE [pc |-> "shown", frames |-> out, value |-> 0,
                          js_error |-> FALSE]
    /\ UNCHANGED <<scene_dataset, mapAPI, with_trajectories, pc, frames, agents_frames,
                   tls_frames, frame_idx, frames_vis, map_used, outcome, traj_call>>

\* the user moves the slider to another of its values, and the callback runs
SliderChange ==
    /\ viewer.pc = "shown"
    /\ \E value \in SliderValues(Len(viewer.frames)) \ {viewer.value} :
        LET r == Callback(viewer.frames, value)
        IN viewer' = [viewer EXCEPT !.value = value, !.frames = r.frames,
                                    !.js_error = (r.err # "none")]
    /\ UNCHANGED <<scene_dataset, mapAPI, with_trajectories, pc, frames, agents_frames,
                   tls_frames, frame_idx, frames_vis, map_used, outcome, traj_call>>

NextViewer == VisualiseScene \/ SliderChange

SpecViewer == InitViewer /\ [][NextViewer]_vars

\* what the page displays: the data of the sources of the last frame
Displayed == viewer.frames[Len(viewer.frames)]

\* the data of frame i (0-based) of the scene, from the dataset
FrameDataOf(i) ==
    get_frame_data(mapAPI, scene_dataset.frames[i + 1],
                   FrameAgentRows(i + 1))

(***************************************************************************)
(* C11. In visualise_scene, for a scene of N frames, every value the       *)
(* slider can take selects an entry of the per-frame list                  *)
(* (0 <= value < N), and the lanes, crosswalks, agents and ego displayed   *)
(* are those of the frame whose index is the slider's value, after any     *)
(* sequence of changes and in the initial state (value 0).                 *)
(***************************************************************************)
C11_SliderShowsSelectedFrame ==
    viewer.pc = "shown" =>
        /\ \A value \in SliderValues(Len(viewer.frames)) :
            0 <= value /\ value < NFrames
        /\ viewer.value < NFrames
        /\ Displayed = FrameDataOf(viewer.value)

=============================================================================
